---- MODULE Spec2Model ----
(***************************************************************************)
(* A model of the Kubernetes initializer of this repository.               *)
(*                                                                         *)
(* Two packages are modelled:                                              *)
(*   labelizer/            LabelController.handle_update, the list pass    *)
(*                         that main.py runs once (gate, handler, queue    *)
(*                         advance, update), with Rejection;               *)
(*   ai2/.../initializer/  ResourceHandler.async_list_items, the watch     *)
(*                         engine with its handle_response callback.       *)
(* The controller that feeds the watch engine its item and error callbacks *)
(* (InitializerController, SimpleResourceController) is imported by        *)
(* ai2/kubernetes/initializer/__init__.py but is not part of the sources;  *)
(* it is modelled from the specification (sections 4.2 to 4.4).            *)
(***************************************************************************)
EXTENDS Integers, Sequences, FiniteSets, TLC

\* ---------------------------------------------------------------- bounds
\* Longest pending-initializers queue of an object.
MaxQueue == 2
\* Most watch requests answered in one run.
MaxSessions == 3
\* Most events of the environment in one run: changes made to the objects by
\* other clients of the API server, lines the server injects into a stream,
\* failed requests, broken connections and streams the server ends. Stale or
\* dangling updates, which the server refuses, and idle timeouts are not
\* counted.
MaxExternal == 1

\* ------------------------------------------------------------ vocabulary
\* The resource instances of the watched type that exist on the server.
Objs == {"job1", "job2"}

\* The order in which the server returns them, in a list and at the start of
\* a watch. Either object can start in any state, so one order covers both.
ServerOrder == <<"job1", "job2">>

\* The --name argument of main.py: the name this initializer is known by.
InitializerName == "initA"

\* Initializer names that can appear in a pending queue.
Names == {"initA", "otherInit"}

\* Rejection.__init__'s default for `code`.
RejectionDefaultCode == 400

\* ResourceHandler.__init__'s default for `request_timeout_seconds`.
RequestTimeoutSeconds == 30

RECURSIVE SeqsUpTo(_, _)
SeqsUpTo(S, n) ==
    IF n = 0 THEN {<<>>}
    ELSE LET shorter == SeqsUpTo(S, n - 1)
         IN  shorter \cup {Append(q, x) : q \in shorter, x \in S}

\* The name of each entry is the merge key of `pending`: no name twice.
Queues == {q \in SeqsUpTo(Names, MaxQueue) :
              \A i, j \in 1..Len(q) : q[i] = q[j] => i = j}

\* ----------------------------------------------------------- V1Status
\* item.metadata.initializers.result when no result was recorded (None).
NoResult == [status |-> "None", message |-> "None", reason |-> "None", code |-> 0]

\* V1Status(message=, reason=, code=, details=, status='Failure')
V1Status(message, reason, code) ==
    [status |-> "Failure", message |-> message, reason |-> reason, code |-> code]

\* The keyword arguments a handler passes to Rejection(...); an argument
\* that is not passed is absent from the record and takes its default.
RejectionArgs ==
    { [message |-> "bad image"],
      [message |-> "bad image", code |-> 403],
      [message |-> "bad image", reason |-> ""],
      [message |-> "bad image", reason |-> "RejectAll", code |-> 403] }

\* `if not reason`: None and the empty string are both falsy.
ReasonIsFalsy(args) == "reason" \notin DOMAIN args \/ args.reason = ""

\* Rejection.__init__ without its `if not reason: reason = message`.
RejectionReasonNotDefaulted(args) ==
    V1Status(args.message,
             IF "reason" \in DOMAIN args THEN args.reason ELSE "None",
             IF "code" \in DOMAIN args THEN args.code ELSE RejectionDefaultCode)

\* Rejection.__init__: the status a Rejection carries.
Rejection(args) ==
    V1Status(args.message,
             IF ReasonIsFalsy(args) THEN args.message ELSE args.reason,
             IF "code" \in DOMAIN args THEN args.code ELSE RejectionDefaultCode)

\* ---------------------------------------------------------------- items
\* An item as the API client deserializes it:
\*   hasInit     metadata.initializers is not None
\*   hasPending  metadata.initializers.pending is not None
\*   pending     the names of metadata.initializers.pending, in order
\*   result      metadata.initializers.result
\*   data        the rest of the object (0: as created, 1: changed by a handler,
\*               2: changed by another client)
\*   rv          metadata.resource_version
Item(o, hasInit, hasPending, pending, result, data, rv) ==
    [name |-> o, hasInit |-> hasInit, hasPending |-> hasPending,
     pending |-> pending, result |-> result, data |-> data, rv |-> rv]

InitialItems(o) ==
    {Item(o, FALSE, FALSE, <<>>, NoResult, 0, 1), Item(o, TRUE, FALSE, <<>>, NoResult, 0, 1)}
    \cup {Item(o, TRUE, TRUE, q, NoResult, 0, 1) : q \in Queues}

\* ------------------------------------------------------- admission gate
\* The gate looking for the name anywhere in the queue.
IsEligibleAnywhere(item, initializer_name) ==
    /\ item.hasInit
    /\ item.hasPending
    /\ \E i \in 1..Len(item.pending) : item.pending[i] = initializer_name

\* The gate without the comparison of names.
IsEligibleNoNameCheck(item, initializer_name) ==
    /\ item.hasInit
    /\ item.hasPending
    /\ item.pending # <<>>

\* `initializers and initializers.pending
\*      and initializers.pending[0].name == self.initializer_name`
\* None and the empty list are falsy; `and` short-circuits.
IsEligible(item, initializer_name) ==
    /\ item.hasInit
    /\ item.hasPending /\ item.pending # <<>>
    /\ item.pending[1] = initializer_name

\* --------------------------------------------------------------- handler
\* What ResourceHandler.handle_item may do with an item (its docstring):
\*   return   return the item as given
\*   mutate   change the item in place and return it
\*   copy     return a changed copy, the given item untouched
\*   reject   raise Rejection(args)
\*   mutate_reject  change the item in place, then raise Rejection(args)
\*   raise    raise any other exception (args.message names its class when
\*            that is urllib3's ReadTimeoutError, from a request of its own)
\* The handler leaves metadata.initializers alone ("the caller is responsible
\* for updating the item's `initializers` object").
HandlerBehaviours ==
    {[kind |-> k, args |-> [message |-> "none"]] : k \in {"return", "mutate", "copy", "raise"}}
    \cup {[kind |-> "reject", args |-> a] : a \in RejectionArgs}
    \cup {[kind |-> "mutate_reject", args |-> [message |-> "bad image"]]}
    \cup {[kind |-> "raise", args |-> [message |-> "ReadTimeoutError"]]}

\* The object `item` names after handle_item ran (changed in place or not).
ItemAfterHandler(item, h) ==
    IF h.kind \in {"mutate", "mutate_reject"} THEN [item EXCEPT !.data = 1] ELSE item

\* The object handle_item returned (when it returned).
HandlerReturned(item, h) ==
    IF h.kind \in {"mutate", "copy"} THEN [item EXCEPT !.data = 1] ELSE item

\* The attributes of an item (a V1Job of the API client).
ItemAttributes == {"api_version", "kind", "metadata", "spec", "status"}

\* ResourceHandler.handle_item, which JobHandler and the other handlers of
\* the package inherit: `raise Rejection(message=...format(item.metadtata.name),
\* reason='RejectAll')`. The arguments are evaluated before Rejection is
\* called; reading an attribute the item does not have raises AttributeError.
handle_item ==
    IF "metadtata" \in ItemAttributes
    THEN [kind |-> "reject",
          args |-> [message |-> "Handler not implemented", reason |-> "RejectAll"]]
    ELSE [kind |-> "raise", args |-> [message |-> "AttributeError"]]

\* One handler of each kind.
OneOfEachKind ==
    {h \in HandlerBehaviours : h.kind = "reject" => h.args = [message |-> "bad image", code |-> 403]}

Rejected(h) == h.kind \in {"reject", "mutate_reject"}
Raised(h) == h.kind = "raise"
RaisedTimeout(h) == Raised(h) /\ h.args.message = "ReadTimeoutError"

\* -------------------------------------------------------- queue advancer
\* `initializers.pending[2:]`
PopTwo(pending) == SubSeq(pending, 3, Len(pending))

\* `initializers.pending[1:]`
PopFront(pending) == SubSeq(pending, 2, Len(pending))

\* The body handle_update sends for an eligible item whose handler did not
\* raise: the returned item, or on Rejection `item` itself with the status
\* as its result; then `pending` set to the old list minus its first entry.
UpdateBody(item, h) ==
    LET updated_item ==
            IF Rejected(h)
            THEN [ItemAfterHandler(item, h) EXCEPT !.result = Rejection(h.args)]
            ELSE HandlerReturned(item, h)
    IN  [updated_item EXCEPT !.pending = PopFront(item.pending)]

\* ------------------------------------------------------------------ state
VARIABLES
    package,      \* which package runs: "labelizer" (main.py) or "initializer"
    handlers,     \* what the handler wired into the controller may do with an
                  \* item: anything at each call in the list pass of main.py;
                  \* under the watch engine, what it did at its first call
    server,       \* the server's copy of each object
    live,         \* the objects that have not been deleted
    pc,           \* main.py / handle_update: "start", "loop", "done", "crashed"
    items,        \* handle_update: result.items of the list call
    idx,          \* handle_update: position of the for loop in result.items
    calls,        \* every handle_item and update call made so far, in order
    sessions,     \* every watch request issued so far, with its response
    errors,       \* every error_callback invocation so far, in order
    restarts,     \* whether the error callback re-invokes async_list_items
    external,     \* events of the environment so far
    delivered,    \* the events handed to the item callback so far
    stopped       \* whether the worker has been stopped

vars == <<package, handlers, server, live, pc, items, idx, calls, sessions, errors,
          restarts, external, delivered, stopped>>

listVars == <<pc, items, idx>>
watchVars == <<sessions, errors, restarts>>
envVars == <<external>>

RECURSIVE SelectLive(_, _)
SelectLive(q, alive) ==
    IF q = <<>> THEN <<>>
    ELSE IF Head(q) \in alive THEN <<Head(q)>> \o SelectLive(Tail(q), alive)
    ELSE SelectLive(Tail(q), alive)

\* ------------------------------------------------------------- API server
\* The update function each package binds for jobs.
UpdateMethod(pkg) == IF pkg = "labelizer" THEN "patch" ELSE "replace"

\* The ways an update call can end: "fail" raises (the object is gone, the
\* body's resource version is stale, or the request fails); "ok" stores the
\* body; a patch can also be merged with the stored pending list ("ok_merged").
UpdateOutcomes(method, body, srv, alive, mayFail) ==
    IF body.name \notin alive \/ body.rv # srv[body.name].rv THEN {"refused"}
    ELSE (IF method = "patch" THEN {"ok", "ok_merged"} ELSE {"ok"})
         \cup (IF mayFail THEN {"fail"} ELSE {})

Failed(u) == u \in {"fail", "refused"}

Stored(body, u, old) ==
    IF u = "ok" THEN [body EXCEPT !.rv = old.rv + 1]
    ELSE IF u = "ok_merged"
    THEN [body EXCEPT !.rv = old.rv + 1, !.pending = old.pending]
    ELSE old

Event(type, object) == [type |-> type, object |-> object]

\* The server writes a line to every open watch stream.
Broadcast(ss, ev) ==
    [s \in DOMAIN ss |->
        IF ss[s].state = "open" THEN [ss[s] EXCEPT !.stream = Append(@, ev)] ELSE ss[s]]

RECURSIVE AddedEvents(_, _)
AddedEvents(q, srv) ==
    IF q = <<>> THEN <<>>
    ELSE <<Event("ADDED", srv[Head(q)])>> \o AddedEvents(Tail(q), srv)

\* ------------------------------------------------------------- pipeline
\* One pass of the body of handle_update's loop over one item, given what the
\* handler does (h) and how the update call ends (u): the calls it makes, the
\* object it stores, and whether an exception leaves it.
HandleItemCall(via, item, h) ==
    [op |-> "handle_item", via |-> via, obj |-> item.name, before |-> item,
     sent |-> item, h |-> h, outcome |-> h.kind]

UpdateCall(via, item, h, body, u) ==
    [op |-> "update", via |-> via, obj |-> item.name, before |-> item,
     sent |-> body, h |-> h, outcome |-> u]

PipelineCalls(via, item, initializer_name, h, u) ==
    IF ~IsEligible(item, initializer_name) THEN <<>>
    ELSE IF Raised(h) THEN <<HandleItemCall(via, item, h)>>
    ELSE <<HandleItemCall(via, item, h), UpdateCall(via, item, h, UpdateBody(item, h), u)>>

\* handle_update catching every exception, not Rejection alone.
PipelineNeverRaises(item, initializer_name, h, u) == FALSE

\* handle_update with patch_item's exceptions swallowed.
PipelineRaisesOnlyHandler(item, initializer_name, h, u) ==
    IsEligible(item, initializer_name) /\ Raised(h)

\* Only Rejection is caught: any other exception of the handler, and a failed
\* update, leave the pipeline.
PipelineRaises(item, initializer_name, h, u) ==
    IsEligible(item, initializer_name) /\ (Raised(h) \/ Failed(u))

PipelineStores(item, initializer_name, h, u) ==
    IsEligible(item, initializer_name) /\ ~Raised(h) /\ ~Failed(u)

\* The (h, u) pairs possible for an item: u is the update's outcome, "none"
\* when no update call is made.
PipelineChoices(item, initializer_name, hs, method, srv, alive, mayFail) ==
    IF ~IsEligible(item, initializer_name)
    THEN {<<CHOOSE h \in HandlerBehaviours : h.kind = "return", "none">>}
    ELSE {<<h, "none">> : h \in {x \in hs : Raised(x)}}
         \cup UNION {{<<h, u>> : u \in UpdateOutcomes(method, UpdateBody(item, h), srv, alive, mayFail)} :
                        h \in {x \in hs : ~Raised(x)}}

\* ------------------------------------------------------------------- Init
Init ==
    /\ package \in {"labelizer", "initializer"}
    \* main.py wires JobHandler, whose handle_item is the inherited one; a
    \* subclass that overrides it can do anything
    /\ handlers \in IF package = "labelizer" THEN {HandlerBehaviours, {handle_item}}
                    ELSE {OneOfEachKind}
    /\ server \in [Objs -> UNION {InitialItems(o) : o \in Objs}]
    /\ \A o \in Objs : server[o].name = o
    \* the cluster the watch engine runs against holds one object of any
    \* shape and one object that is already initialized
    /\ package = "initializer" =>
          server[ServerOrder[2]] = Item(ServerOrder[2], FALSE, FALSE, <<>>, NoResult, 0, 1)
    \* both objects exist, or the cluster has no object of the type
    /\ live \in {Objs, {}}
    /\ live = {} => \A o \in Objs : server[o] = Item(o, FALSE, FALSE, <<>>, NoResult, 0, 1)
    /\ pc = "start"
    /\ items = <<>>
    /\ idx = 1
    /\ calls = <<>>
    /\ sessions = <<>>
    /\ errors = <<>>
    /\ restarts = FALSE
    /\ external = 0
    /\ delivered = {}
    /\ stopped = FALSE

\* -------------------------------------------------------------- list pass
\* handle_update, line 34: result = self.handler.list_all_items()
list_all_items ==
    /\ package = "labelizer"
    /\ pc = "start"
    /\ items' = [i \in 1..Len(SelectLive(ServerOrder, live)) |-> server[SelectLive(ServerOrder, live)[i]]]
    /\ idx' = 1
    /\ pc' = IF SelectLive(ServerOrder, live) = <<>> THEN "done" ELSE "loop"
    /\ UNCHANGED <<package, handlers, server, live, calls, watchVars, envVars, delivered, stopped>>

\* handle_update, lines 37 to 53: one iteration of `for item in result.items`.
\* An exception (the handler's, or the update's) leaves handle_update and
\* main(): the process ends.
handle_update ==
    /\ pc = "loop"
    /\ idx <= Len(items)
    /\ LET item == items[idx] IN
       \E c \in PipelineChoices(item, InitializerName, handlers, UpdateMethod(package), server, live,
                             external < MaxExternal) :
          LET h == c[1]
              u == c[2]
          IN  /\ calls' = calls \o PipelineCalls("list", item, InitializerName, h, u)
              /\ IF PipelineStores(item, InitializerName, h, u)
                 THEN /\ server' = [server EXCEPT ![item.name] = Stored(UpdateBody(item, h), u, @)]
                      /\ sessions' = Broadcast(sessions, Event("MODIFIED", server'[item.name]))
                 ELSE UNCHANGED <<server, sessions>>
              /\ pc' = IF PipelineRaises(item, InitializerName, h, u) THEN "crashed"
                        ELSE IF idx = Len(items) THEN "done" ELSE "loop"
              /\ idx' = IF PipelineRaises(item, InitializerName, h, u) THEN idx ELSE idx + 1
              /\ external' = IF u = "fail" THEN external + 1 ELSE external
    /\ UNCHANGED <<package, handlers, live, items, errors, restarts, delivered, stopped>>

\* ----------------------------------------------------------- watch engine
\* The keyword arguments of the watch request async_list_items returns.
InitialWatchParams ==
    [include_uninitialized |-> TRUE, watch |-> TRUE, callback |-> "handle_response",
     request_timeout |-> RequestTimeoutSeconds, preload_content |-> FALSE]

\* The restart without its request timeout.
RestartWatchParamsNoTimeout ==
    [include_uninitialized |-> TRUE, watch |-> TRUE, callback |-> "handle_response",
     request_timeout |-> 0, preload_content |-> FALSE]

\* The keyword arguments of the watch request handle_response ends with.
RestartWatchParams ==
    [include_uninitialized |-> TRUE, watch |-> TRUE, callback |-> "handle_response",
     request_timeout |-> RequestTimeoutSeconds, preload_content |-> FALSE]

\* self._list_all_items(watch=True, callback=handle_response, ...): the request
\* runs in a thread of its own, which calls handle_response with the open
\* response once the server has answered.
\*   state     "requested", "open" (handle_response is reading the response),
\*             "aborted" (the response was closed under handle_response, which
\*             is still in its loop), "closed" (response.close() was called
\*             by handle_response)
\*   released  response.release_conn() was called
\*   stream    the lines the server has written and handle_response has not read
\*   bound     the local `item` of handle_response has been assigned
\*   by        who issued the request
\*   parent    the session whose handle_response issued it (0: the controller)
\*   parent_released  whether that session's connection had been released
\*             when the request was made (TRUE when there is no parent)
\*   end       how the session ended: "" (it has not), "timeout", "eof", or
\*             the exception that `except Exception` caught
WatchRequest(params, by, parent, srv, alive) ==
    [state |-> "requested", released |-> FALSE, params |-> params, by |-> by,
     bound |-> FALSE, parent |-> parent, parent_released |-> TRUE, end |-> "",
     stream |-> <<>>]

\* error_callback(e): logs, and re-invokes async_list_items when the
\* controller chose to (`restarts`).
ErrorCallbackSessions(ss, s, srv, alive, again) ==
    IF again
    THEN Append(ss, [WatchRequest(InitialWatchParams, "error_callback", s, srv, alive)
                        EXCEPT !.parent_released = ss[s].released])
    ELSE ss

\* finally: response.close(); response.release_conn()
Finally(ss, s, how) ==
    [ss EXCEPT ![s].state = "closed", ![s].released = TRUE, ![s].stream = <<>>,
               ![s].end = how]

\* handle_response without its last statement.
RewatchNever(ss, s, srv, alive) == ss

\* handle_response, lines 92 to 97: the next watch request.
Rewatch(ss, s, srv, alive) ==
    Append(ss, [WatchRequest(RestartWatchParams, "handle_response", s, srv, alive)
                   EXCEPT !.parent_released = ss[s].released])

\* The ends of a session that no exception causes.
Quiet == {"timeout", "eof"}

\* The end of handle_response for session s: `how` is "eof" when the loop
\* ended, "timeout" when the read timed out, else the exception that
\* `except Exception` caught. `ss` and `srv` are the sessions and the server
\* as the loop left them.
EndOfResponse(s, how, ss, srv) ==
    /\ errors' = IF how \in Quiet THEN errors ELSE Append(errors, [session |-> s, err |-> how])
    /\ sessions' =
          Rewatch(
            Finally(
              IF how \in Quiet THEN ss
              ELSE ErrorCallbackSessions(ss, s, srv, live, restarts),
              s, how),
            s, srv, live)

\* handle_response with `except Exception` alone.
CaughtAsException(h) == IF Raised(h) THEN "handler" ELSE "update"

\* The except clause that catches an exception of the item callback, whose
\* call is inside the try block: `except ReadTimeoutError` takes a
\* ReadTimeoutError, whoever raised it; `except Exception` the others (named
\* after what raised: the handler, or the update call).
CaughtAs(h) ==
    IF RaisedTimeout(h) THEN "timeout" ELSE IF Raised(h) THEN "handler" ELSE "update"

\* The controller starts the watch, choosing what its error callback does.
async_list_items ==
    /\ package = "initializer"
    /\ pc = "start"
    /\ sessions = <<>>
    /\ restarts' \in BOOLEAN
    /\ sessions' = <<WatchRequest(InitialWatchParams, "async_list_items", 0, server, live)>>
    /\ pc' = "watching"
    /\ UNCHANGED <<package, handlers, server, live, items, idx, calls, errors, envVars,
                   delivered, stopped>>

\* The server answers a watch request: handle_response is called with the
\* response. A watch without a resource version starts with an ADDED line for
\* each object that exists.
Respond(s) ==
    /\ s \in DOMAIN sessions
    /\ sessions[s].state = "requested"
    /\ Cardinality({t \in DOMAIN sessions : sessions[t].state # "requested"}) < MaxSessions
    /\ sessions' = [sessions EXCEPT ![s].state = "open",
                                    ![s].stream = AddedEvents(SelectLive(ServerOrder, live), server)]
    /\ UNCHANGED <<package, handlers, server, live, listVars, calls, errors, restarts, envVars,
                   delivered, stopped>>

\* The controller's item callback: the pipeline of handle_update on one item,
\* writing with update_item.
item_callback(s, item, rest) ==
    \E c \in PipelineChoices(item, InitializerName, handlers, UpdateMethod(package), server, live,
                             external < MaxExternal) :
       LET h == c[1]
           u == c[2]
           stores == PipelineStores(item, InitializerName, h, u)
           srv == IF stores
                  THEN [server EXCEPT ![item.name] = Stored(UpdateBody(item, h), u, @)]
                  ELSE server
           read == [sessions EXCEPT ![s].stream = rest, ![s].bound = TRUE]
           ss == IF stores THEN Broadcast(read, Event("MODIFIED", srv[item.name])) ELSE read
       IN  /\ calls' = calls \o PipelineCalls("watch", item, InitializerName, h, u)
           /\ handlers' = IF IsEligible(item, InitializerName) THEN {h} ELSE handlers
           /\ server' = srv
           /\ external' = IF u = "fail" THEN external + 1 ELSE external
           /\ IF PipelineRaises(item, InitializerName, h, u)
              THEN EndOfResponse(s, CaughtAs(h), ss, srv)
              ELSE /\ sessions' = ss
                   /\ UNCHANGED errors

\* handle_response, lines 72 to 80: one iteration of
\* `for line in iter_resp_lines(response)`.
handle_response(s) ==
    /\ s \in DOMAIN sessions
    /\ sessions[s].state = "open"
    /\ sessions[s].stream # <<>>
    /\ LET event == Head(sessions[s].stream)
           rest == Tail(sessions[s].stream)
           read == [sessions EXCEPT ![s].stream = rest]
       IN  IF event.type = "BAD"
           THEN \* unmarshal_event raises on a line that is not an event
                /\ EndOfResponse(s, "decode", read, server)
                /\ UNCHANGED <<handlers, server, calls, external, delivered>>
           ELSE IF event.type \in {"MODIFIED", "ADDED"}
           THEN /\ delivered' = delivered \cup {event}
                /\ item_callback(s, event.object, rest)
           ELSE IF sessions[s].bound
           THEN \* the debug line names the item of the last delivered event
                /\ sessions' = read
                /\ UNCHANGED <<handlers, server, calls, errors, external, delivered>>
           ELSE \* the debug line reads `item` before any assignment
                /\ EndOfResponse(s, "UnboundLocalError", read, server)
                /\ UNCHANGED <<handlers, server, calls, external, delivered>>
    /\ UNCHANGED <<package, live, listVars, restarts, stopped>>

\* except ReadTimeoutError: no line arrived within the request timeout.
ReadTimeoutError(s) ==
    /\ s \in DOMAIN sessions
    /\ sessions[s].state = "open"
    /\ sessions[s].stream = <<>>
    /\ EndOfResponse(s, "timeout", sessions, server)
    /\ UNCHANGED <<package, handlers, server, live, listVars, calls, restarts, envVars,
                   delivered, stopped>>

\* except Exception: reading the stream failed (connection reset and the like).
StreamError(s) ==
    /\ external < MaxExternal
    /\ s \in DOMAIN sessions
    /\ sessions[s].state = "open"
    /\ external' = external + 1
    /\ EndOfResponse(s, "stream", sessions, server)
    /\ UNCHANGED <<package, handlers, server, live, listVars, calls, restarts, delivered, stopped>>

\* The server ended the stream: the for loop ends without an exception.
StreamEnd(s) ==
    /\ external < MaxExternal
    /\ s \in DOMAIN sessions
    /\ sessions[s].state = "open"
    /\ sessions[s].stream = <<>>
    /\ external' = external + 1
    /\ EndOfResponse(s, "eof", sessions, server)
    /\ UNCHANGED <<package, handlers, server, live, listVars, calls, restarts, delivered, stopped>>

\* ------------------------------------------------------------------ stop
\* Stop(): the worker is marked stopped and the response of every session
\* that is being read is closed; control returns to the caller.
Stop ==
    /\ package = "initializer"
    /\ pc = "watching"
    /\ ~stopped
    /\ external < MaxExternal
    /\ external' = external + 1
    /\ stopped' = TRUE
    /\ sessions' = [s \in DOMAIN sessions |->
                       IF sessions[s].state = "open"
                       THEN [sessions[s] EXCEPT !.state = "aborted"]
                       ELSE sessions[s]]
    /\ UNCHANGED <<package, handlers, server, live, listVars, calls, errors, restarts,
                   delivered>>

\* handle_response reads from a response that was closed under it: the loop
\* ends, cleanly or with an exception.
ReadClosedResponse(s) ==
    /\ s \in DOMAIN sessions
    /\ sessions[s].state = "aborted"
    /\ \E how \in {"eof", "closed"} : EndOfResponse(s, how, sessions, server)
    /\ UNCHANGED <<package, handlers, server, live, listVars, calls, restarts, envVars,
                   delivered, stopped>>

\* ------------------------------------------------------------ environment
\* Another client changes an object: it edits the object, the initializer at
\* the head of the queue (not this one) finishes with it, or it deletes it.
ExternalChange(o, what) ==
    /\ external < MaxExternal
    /\ o \in live
    /\ external' = external + 1
    /\ \/ /\ what = "edit"
          /\ server' = [server EXCEPT ![o].data = 2, ![o].rv = @ + 1]
          /\ sessions' = Broadcast(sessions, Event("MODIFIED", server'[o]))
          /\ UNCHANGED live
       \/ /\ what = "pop_other"
          /\ server[o].hasInit /\ server[o].hasPending /\ server[o].pending # <<>>
          /\ server[o].pending[1] # InitializerName
          /\ server' = [server EXCEPT ![o].pending = Tail(@), ![o].rv = @ + 1]
          /\ sessions' = Broadcast(sessions, Event("MODIFIED", server'[o]))
          /\ UNCHANGED live
       \/ /\ what = "delete"
          /\ live' = live \ {o}
          /\ sessions' = Broadcast(sessions, Event("DELETED", server[o]))
          /\ UNCHANGED server
    /\ UNCHANGED <<package, handlers, listVars, calls, errors, restarts, delivered, stopped>>

\* The server writes to a stream an ERROR event, a DELETED event for an object
\* the stream has not named, or a line that is not an event.
ServerInject(s, type) ==
    /\ external < MaxExternal
    /\ s \in DOMAIN sessions
    /\ sessions[s].state = "open"
    /\ external' = external + 1
    /\ sessions' = [sessions EXCEPT ![s].stream =
                        Append(@, Event(type, Item("Status", FALSE, FALSE, <<>>, NoResult, 0, 0)))]
    /\ UNCHANGED <<package, handlers, server, live, listVars, calls, errors, restarts,
                   delivered, stopped>>

\* ------------------------------------------------------------------- Next
Next ==
    \/ list_all_items
    \/ handle_update
    \/ async_list_items
    \/ \E s \in DOMAIN sessions : Respond(s)
    \/ \E s \in DOMAIN sessions : handle_response(s)
    \/ \E s \in DOMAIN sessions : ReadTimeoutError(s)
    \/ \E s \in DOMAIN sessions : StreamError(s)
    \/ \E s \in DOMAIN sessions : StreamEnd(s)
    \/ Stop
    \/ \E s \in DOMAIN sessions : ReadClosedResponse(s)
    \/ \E o \in Objs, what \in {"edit", "pop_other", "delete"} : ExternalChange(o, what)
    \/ \E s \in DOMAIN sessions, type \in {"ERROR", "DELETED", "BAD"} : ServerInject(s, type)

Spec == Init /\ [][Next]_vars

\* ----------------------------------------------------------------- claims
\* The pending queue of an item as the specification reads it: an absent
\* initializers field and an absent list are an empty queue.
QueueOf(item) == IF item.hasInit /\ item.hasPending THEN item.pending ELSE <<>>

\* The queue is not empty and its first entry is named n.
HeadIs(item, n) == QueueOf(item) # <<>> /\ Head(QueueOf(item)) = n

\* This step is an iteration of handle_update's loop, on items[idx].
ListStep == pc = "loop" /\ (idx' # idx \/ pc' # pc)

\* This step is handle_response of session s taking an ADDED or MODIFIED line
\* off its stream and delivering its object to the item callback.
Delivers(s) ==
    /\ s \in DOMAIN sessions
    /\ sessions[s].state = "open"
    /\ sessions[s].stream # <<>>
    /\ Head(sessions[s].stream).type \in {"ADDED", "MODIFIED"}
    /\ \/ sessions'[s].end \in {"handler", "update"}
       \/ /\ sessions'[s].state = "open"
          /\ sessions'[s] # sessions[s]
          /\ Len(sessions'[s].stream) <= Len(sessions[s].stream)
          /\ SubSeq(sessions'[s].stream, 1, Len(sessions[s].stream) - 1)
                = Tail(sessions[s].stream)

Delivered(s) == Head(sessions[s].stream).object

Updates == {i \in DOMAIN calls : calls[i].op = "update"}
Handlings == {i \in DOMAIN calls : calls[i].op = "handle_item"}
OpenSessions == {s \in DOMAIN sessions : sessions[s].state = "open"}
Requested == {s \in DOMAIN sessions : sessions[s].state = "requested"}
Aborted == {s \in DOMAIN sessions : sessions[s].state = "aborted"}
Children(s) == {t \in DOMAIN sessions : sessions[t].parent = s}

\* C1: once an update that pops this initializer off the head of an object's
\* queue has been issued (here: and stored by the server), no later event or
\* list result for that object leads to a handler invocation or an update call.
C1_AtMostOneDecision ==
    \A i \in Updates : \A j \in DOMAIN calls :
        (~Failed(calls[i].outcome) /\ j > i) => calls[j].obj # calls[i].obj

\* C2: an item passes the gate (the handler is invoked for it) if and only if
\* its pending queue is not empty and its first entry is named after this
\* initializer; an absent field, an absent or empty list and any other head
\* do not pass.
C2_GateIffHeadMatches ==
    [][/\ ListStep => ((calls' # calls) <=> HeadIs(items[idx], InitializerName))
       /\ \A s \in DOMAIN sessions :
             Delivers(s) => ((calls' # calls) <=> HeadIs(Delivered(s), InitializerName))]_vars

\* The gate has let pass an item whose queue has this initializer first of
\* two, and has held back an item without an initializers field.
C2_Witness ==
    /\ pc = "done"
    /\ Len(items) = 2
    /\ ~items[1].hasInit
    /\ items[2].pending = <<InitializerName, "otherInit">>
    /\ \A i \in DOMAIN calls : calls[i].obj = items[2].name
    /\ Handlings # {}

\* C3: the body of every update, whether the handler accepted or rejected the
\* item, carries the item's queue minus its first entry: the other entries
\* are all there, in their order.
C3_UpdatePopsExactlyTheHead ==
    \A i \in Updates :
        LET q == calls[i].before.pending
            r == calls[i].sent.pending
        IN  /\ calls[i].sent.hasInit /\ calls[i].sent.hasPending
            /\ q # <<>>
            /\ Len(r) = Len(q) - 1
            /\ \A k \in 1..Len(r) : r[k] = q[k + 1]

\* An accepted and a rejected item have been updated, one of them with queue
\* [initA, otherInit], which left [otherInit].
C3_Witness ==
    \E i, j \in Updates :
        /\ ~Rejected(calls[i].h)
        /\ Rejected(calls[j].h)
        /\ calls[i].before.pending = <<InitializerName, "otherInit">>
        /\ calls[i].sent.pending = <<"otherInit">>
        /\ calls[j].sent.pending = <<>>

\* The items of the snapshot the list pass is finished with.
PassedItems ==
    IF pc = "loop" THEN idx - 1
    ELSE IF pc = "done" THEN Len(items)
    ELSE IF pc = "crashed" THEN idx
    ELSE 0

ItemIsEligible(item) == HeadIs(item, InitializerName)
CallIsHandling(c) == c.op = "handle_item"

C5_IneligibleItemIgnored ==
    [][/\ (ListStep /\ ~HeadIs(items[idx], InitializerName))
            => UNCHANGED <<calls, server, errors>>
       /\ \A s \in DOMAIN sessions :
             (Delivers(s) /\ ~HeadIs(Delivered(s), InitializerName))
                => UNCHANGED <<calls, server, errors>>]_vars

\* The list returned [initA] and [otherInit, initA]: the first object was
\* processed and ends with an empty queue, the second was left alone.
C5_Witness ==
    /\ pc = "done"
    /\ Len(items) = 2
    /\ items[1].pending = <<InitializerName>>
    /\ items[2].pending = <<"otherInit", InitializerName>>
    /\ server[items[1].name].pending = <<>>
    /\ server[items[2].name] = items[2]
    /\ \A i \in DOMAIN calls : calls[i].obj = items[1].name

\* C6: a rejection is followed by exactly one update call for the item; its
\* body has the queue minus its head and, as result, a Failure status with
\* the rejection's message, its code (400 when none was given) and its reason
\* (the message when none was given).
C6_RejectionIsRecorded ==
    \A i \in Handlings :
        Rejected(calls[i].h) =>
            /\ i + 1 \in Updates
            /\ i + 2 \in DOMAIN calls => calls[i + 2].op # "update"
            /\ LET args == calls[i].h.args
                   body == calls[i + 1].sent
               IN  /\ calls[i + 1].before = calls[i].before
                   /\ body.pending = Tail(calls[i].before.pending)
                   /\ body.result.status = "Failure"
                   /\ body.result.message = args.message
                   /\ body.result.code =
                         (IF "code" \in DOMAIN args THEN args.code ELSE 400)
                   /\ "reason" \notin DOMAIN args => body.result.reason = args.message
                   /\ ("reason" \in DOMAIN args /\ args.reason # "")
                         => body.result.reason = args.reason

\* The handler raised Rejection(message="bad image", code=403) for an object
\* with queue [initA]: the update has an empty queue, code 403 and the
\* message as reason.
C6_Witness ==
    \E i \in Updates :
        /\ calls[i].h = [kind |-> "reject", args |-> [message |-> "bad image", code |-> 403]]
        /\ calls[i].before.pending = <<InitializerName>>
        /\ calls[i].sent.pending = <<>>
        /\ calls[i].sent.result = V1Status("bad image", "bad image", 403)

\* C7: the body of the update of a rejected item is the item as it was before
\* the handler ran, but for the queue and the result.
C7_RejectedBodyIsOriginal ==
    \A i \in Updates :
        Rejected(calls[i].h) =>
            calls[i].sent = [calls[i].before EXCEPT !.pending = calls[i].sent.pending,
                                                    !.result = calls[i].sent.result]

\* C8: at most one watch session is open at any moment.
C8_AtMostOneActiveSession == Cardinality(OpenSessions) <= 1

\* C9: a session that ended by the idle timeout is closed, has caused exactly
\* one new watch request, with the parameters of its own, and no invocation
\* of the error callback.
C9_IdleTimeoutRestartsOnce ==
    \A s \in DOMAIN sessions :
        sessions[s].end = "timeout" =>
            /\ sessions[s].state = "closed"
            /\ Cardinality(Children(s)) = 1
            /\ \A t \in Children(s) :
                  /\ sessions[t].params = sessions[s].params
                  /\ sessions[t].by = "handle_response"
                  /\ t > s
            /\ \A e \in DOMAIN errors : errors[e].session # s

\* Two idle timeouts in a row: the third session is open.
C9_Witness ==
    /\ Len(sessions) = 3
    /\ sessions[1].end = "timeout"
    /\ sessions[2].end = "timeout"
    /\ sessions[3].state = "open"
    /\ errors = <<>>

Ended == {s \in DOMAIN sessions : sessions[s].end # ""}

\* C11: a session that has ended, however it ended, has its response closed
\* and its connection released, and every watch request that followed from it
\* was made after the release.
C11_ReleasedBeforeNextRequest ==
    /\ \A s \in Ended : sessions[s].state = "closed" /\ sessions[s].released
    /\ \A t \in DOMAIN sessions : sessions[t].parent_released

\* This step is handle_response of session s taking a line of one of `types`
\* off its stream.
ReadsLine(s, types) ==
    /\ s \in DOMAIN sessions
    /\ sessions[s].state = "open"
    /\ sessions[s].stream # <<>>
    /\ Head(sessions[s].stream).type \in types
    /\ \/ sessions'[s].end \in {"handler", "update", "decode", "UnboundLocalError"}
       \/ /\ sessions'[s].state = "open"
          /\ sessions'[s] # sessions[s]
          /\ Len(sessions'[s].stream) <= Len(sessions[s].stream)
          /\ SubSeq(sessions'[s].stream, 1, Len(sessions[s].stream) - 1)
                = Tail(sessions[s].stream)

\* C12: a DELETED event, wherever it comes in a session, is discarded: reading
\* it invokes neither the item callback nor the error callback, and neither
\* ends the session nor causes a new watch request.
C12_DeletedIsDiscarded ==
    [][\A s \in DOMAIN sessions :
          ReadsLine(s, {"DELETED"}) =>
              /\ calls' = calls
              /\ errors' = errors
              /\ sessions'[s].state = "open"
              /\ Len(sessions') = Len(sessions)]_vars

\* C13: a line that fails to decode is skipped: reading it does not invoke the
\* error callback, the session stays open and no new watch request is made.
C13_UndecodableLineIsSkipped ==
    [][\A s \in DOMAIN sessions :
          ReadsLine(s, {"BAD"}) =>
              /\ errors' = errors
              /\ sessions'[s].state = "open"
              /\ sessions'[s].end = ""
              /\ Len(sessions') = Len(sessions)]_vars

\* C14: an ERROR event ends the session that reads it, so that no later line
\* of that session reaches the item callback.
C14_ErrorEventEndsSession ==
    [][\A s \in DOMAIN sessions :
          ReadsLine(s, {"ERROR"}) => sessions'[s].state = "closed"]_vars

\* C15: an event that was delivered to the item callback is not delivered
\* again: a session that follows a reconnect does not repeat what the sessions
\* before it delivered.
C15_NoRedeliveryAfterReconnect ==
    [][\A s \in DOMAIN sessions :
          Delivers(s) => Head(sessions[s].stream) \notin delivered]_vars

\* C16: the states of an object are handled in the order the server emitted
\* them, whichever session delivers them: no state of an object is delivered
\* after a newer state of that object was.
C16_HandledInServerOrder ==
    [][\A s \in DOMAIN sessions :
          Delivers(s) =>
              \A d \in delivered :
                  d.object.name = Delivered(s).name => d.object.rv <= Delivered(s).rv]_vars

\* C17: a failed update is not attempted again for that failure, and the
\* object, if it is still there and still eligible, is taken up again: the
\* program does not end with it left over.
C17_FailedUpdateIsTakenUpAgain ==
    \A i \in Updates :
        Failed(calls[i].outcome) =>
            /\ i + 1 \in DOMAIN calls =>
                  ~(calls[i + 1].op = "update" /\ calls[i + 1].before = calls[i].before)
            /\ (/\ pc \in {"done", "crashed"}
                /\ calls[i].obj \in live
                /\ IsEligible(server[calls[i].obj], InitializerName))
                  => \E j \in Handlings : j > i /\ calls[j].obj = calls[i].obj

\* C18: every update call is a replace call, never a patch: the server never
\* merges the body with the pending list it has.
C18_UpdatesAreReplace ==
    \A i \in Updates :
        /\ UpdateMethod(package) = "replace"
        /\ calls[i].outcome # "ok_merged"

\* C19: when the list pass is over the program has not stopped: it has
\* started the watch.
C19_WatchFollowsListPass == pc = "done" => sessions # <<>>

\* C20: once the worker is stopped, no watch request is made and no event is
\* delivered to the item callback.
C20_StoppedStaysStopped ==
    [][stopped => (Len(sessions') = Len(sessions) /\ delivered' = delivered)]_vars

\* A call that ended with an exception other than Rejection.
CallRaised(c) ==
    \/ c.op = "handle_item" /\ Raised(c.h)
    \/ c.op = "update" /\ Failed(c.outcome)

\* C21: in the list pass a Rejection is caught and followed by the update;
\* any other exception of the handler, and a failed update, end the pass at
\* that object: it is the last call made, and no call is ever made for an
\* object that comes after it in the snapshot.
C21_OnlyRejectionIsCaught ==
    package = "labelizer" =>
        /\ \A i \in DOMAIN calls :
              CallRaised(calls[i]) =>
                  /\ pc = "crashed"
                  /\ i = Len(calls)
                  /\ calls[i].before = items[idx]
        /\ pc = "crashed" =>
              /\ calls # <<>> /\ CallRaised(calls[Len(calls)])
              /\ \A k \in (idx + 1)..Len(items) :
                    \A i \in DOMAIN calls : calls[i].obj # items[k].name
        /\ \A i \in Handlings :
              Rejected(calls[i].h) => i + 1 \in Updates

\* The handler raised an exception that is not a Rejection for the first of
\* two eligible objects: the pass is over after one call, the second object
\* untouched.
C21_Witness ==
    /\ package = "labelizer"
    /\ pc = "crashed"
    /\ idx = 1
    /\ Len(items) = 2
    /\ ItemIsEligible(items[1]) /\ ItemIsEligible(items[2])
    /\ Len(calls) = 1
    /\ calls[1].op = "handle_item" /\ Raised(calls[1].h)
    /\ server[items[2].name] = items[2]

\* This step is an item callback of the watch engine ending with an exception.
CallbackRaised ==
    /\ Len(calls') > Len(calls)
    /\ calls'[Len(calls')].via = "watch"
    /\ CallRaised(calls'[Len(calls')])

\* This step ends session s as handle_response ends a session: the lines not
\* read are dropped, the response is closed and released, and handle_response
\* makes the next watch request.
EndsAndRewatches(s) ==
    /\ sessions[s].state = "open"
    /\ sessions'[s].state = "closed"
    /\ sessions'[s].released
    /\ sessions'[s].stream = <<>>
    /\ \E t \in DOMAIN sessions' \ DOMAIN sessions :
          /\ sessions'[t].parent = s
          /\ sessions'[t].by = "handle_response"
          /\ sessions'[t].state = "requested"

\* The error callback is invoked in this step, once, for session s, with the
\* exception that ended it.
ErrorCallbackInvoked(s) ==
    errors' = Append(errors, [session |-> s, err |-> sessions'[s].end])

C23_DefaultHandlerRejectsAll ==
    (package = "labelizer" /\ handlers = {handle_item}) =>
        \A i \in Handlings :
            /\ Rejected(calls[i].h)
            /\ i + 1 \in Updates
            /\ calls[i + 1].sent.result.status = "Failure"
            /\ calls[i + 1].sent.result.reason = "RejectAll"

====
